---- MODULE Spec2Model ----
(***************************************************************************)
(* A model of class INIReader (src/ini_reader.h).                          *)
(*                                                                         *)
(* A std::string is a sequence of one-character strings, so that splitting,*)
(* matching, trimming and formatting are computed character by character.  *)
(* A string_multimap is the sequence of its (first, second) pairs in       *)
(* iteration order: ascending by key, equal keys in insertion order.       *)
(* ini_content (a std::map) is a function whose DOMAIN is the set of       *)
(* section names present.                                                  *)
(* The flag do_utf8_to_gbk keeps its default (false): transcoding is an    *)
(* external collaborator.                                                  *)
(***************************************************************************)
EXTENDS Integers, Sequences, FiniteSets

VARIABLES
    parsed,                 \* bool parsed
    current_section,        \* std::string current_section (the cursor)
    ini_content,            \* ini_data_struct ini_content (the Document)
    exclude_sections,       \* string_array exclude_sections
    include_sections,       \* string_array include_sections
    read_sections,          \* string_array read_sections
    cached_section,         \* std::string cached_section
    cached_section_content, \* string_multimap cached_section_content
    store_any_line,         \* bool store_any_line
    text,                   \* the text the caller holds, to hand to Parse
    last                    \* the most recent call: its arguments and its outcome

vars == <<parsed, current_section, ini_content, exclude_sections,
          include_sections, read_sections, cached_section,
          cached_section_content, store_any_line, text, last>>

(***************************************************************************)
(* Bounds of the model.                                                    *)
(***************************************************************************)
\* most lines of a text handed to Parse in SpecParse
MaxLines == 4
\* most items Set puts in one section
MaxItems == 2
\* Parse is not called again once read_sections is longer than this
MaxRead == 1

MAX_LINE_LENGTH == 4096

(***************************************************************************)
(* std::string                                                             *)
(***************************************************************************)
Str0 == << >>
LF == "\n"
CR == "\r"

\* the character codes of the characters the model uses
Ord(c) ==
    CASE c = "\n" -> 10 [] c = "\r" -> 13 [] c = " " -> 32 [] c = "#" -> 35
      [] c = "1" -> 49 [] c = "2" -> 50 [] c = ";" -> 59 [] c = "=" -> 61
      [] c = "A" -> 65 [] c = "E" -> 69 [] c = "M" -> 77 [] c = "N" -> 78
      [] c = "O" -> 79 [] c = "[" -> 91 [] c = "]" -> 93 [] c = "a" -> 97
      [] c = "b" -> 98 [] c = "x" -> 120 [] c = "y" -> 121 [] c = "z" -> 122
      [] c = "{" -> 123 [] c = "}" -> 125

\* std::string operator< : lexicographic on the character codes
RECURSIVE StrLess(_, _)
StrLess(s, t) ==
    IF t = << >> THEN FALSE
    ELSE IF s = << >> THEN TRUE
    ELSE IF Head(s) = Head(t) THEN StrLess(Tail(s), Tail(t))
    ELSE Ord(Head(s)) < Ord(Head(t))

\* count(s.begin(), s.end(), c)
CountChar(s, c) == Cardinality({i \in 1..Len(s) : s[i] = c})

\* count(v.begin(), v.end(), x) on a string_array
count(v, x) == Cardinality({i \in 1..Len(v) : v[i] = x})

\* s.find(c) for a single character: the first position (from 1), 0 for npos
RECURSIVE FindFrom(_, _, _)
FindFrom(s, c, i) ==
    IF i > Len(s) THEN 0 ELSE IF s[i] = c THEN i ELSE FindFrom(s, c, i + 1)
FindChar(s, c) == FindFrom(s, c, 1)

\* x.first.find(itemName) == 0 : itemName is a prefix of s
StartsWith(s, p) == Len(p) <= Len(s) /\ SubSeq(s, 1, Len(p)) = p

\* replace_all_distinct(strLine, "\r", "")
RemoveCR(s) == SelectSeq(s, LAMBDA c : c # CR)

\* trim: surrounding blanks removed
RECURSIVE trimLeft(_)
trimLeft(s) == IF s # << >> /\ Head(s) = " " THEN trimLeft(Tail(s)) ELSE s
RECURSIVE trimRight(_)
trimRight(s) ==
    IF s # << >> /\ s[Len(s)] = " " THEN trimRight(SubSeq(s, 1, Len(s) - 1)) ELSE s
trim(s) == trimRight(trimLeft(s))

\* regMatch(strLine, "^(.*?)=(.*?)$") : the whole line matches, '.' is any
\* character but a line terminator
regMatchItem(strLine) == FindChar(strLine, "=") # 0 /\ FindChar(strLine, LF) = 0
\* regReplace(strLine, regItem, "$1") : up to the first '='
regItemName(strLine) == SubSeq(strLine, 1, FindChar(strLine, "=") - 1)
\* regReplace(strLine, regItem, "$2") : after the first '='
regItemVal(strLine) == SubSeq(strLine, FindChar(strLine, "=") + 1, Len(strLine))
\* regMatch(strLine, "^\[(.*?)\]$")
regMatchSection(strLine) ==
    /\ Len(strLine) >= 2
    /\ strLine[1] = "["
    /\ strLine[Len(strLine)] = "]"
    /\ FindChar(strLine, LF) = 0
\* regReplace(strLine, regSection, "$1")
regSectionName(strLine) == SubSeq(strLine, 2, Len(strLine) - 1)

\* the lines getline(strStrm, strLine, delimiter) yields, in order: the
\* pieces between delimiters, and no last piece when nothing follows the
\* last delimiter
RECURSIVE getlines(_, _)
getlines(content, delimiter) ==
    IF content = << >> THEN << >>
    ELSE LET p == FindChar(content, delimiter)
         IN  IF p = 0 THEN <<content>>
             ELSE <<SubSeq(content, 1, p - 1)>>
                  \o getlines(SubSeq(content, p + 1, Len(content)), delimiter)

(***************************************************************************)
(* std::multimap<std::string, std::string>                                 *)
(***************************************************************************)
NoItems == << >>
Pair(k, v) == [first |-> k, second |-> v]

\* multimap::insert : after the last element whose key is not greater
MMInsert(m, k, v) ==
    LET n == Cardinality({i \in 1..Len(m) : ~StrLess(k, m[i].first)})
    IN  SubSeq(m, 1, n) \o <<Pair(k, v)>> \o SubSeq(m, n + 1, Len(m))

\* multimap::count(key)
MMCount(m, k) == Cardinality({i \in 1..Len(m) : m[i].first = k})

\* multimap::erase(key) : the container without the elements with that key
MMEraseKey(m, k) == SelectSeq(m, LAMBDA e : e.first # k)

\* a find that answers the last element with the key
MMFindLast(m, k) ==
    IF MMCount(m, k) = 0 THEN 0
    ELSE CHOOSE i \in 1..Len(m) :
            m[i].first = k /\ \A j \in (i + 1)..Len(m) : m[j].first # k
\* multimap::find(key) as libstdc++ computes it (std::__cxx11 names that
\* library): the lower bound, when its key is equal; 0 for end()
MMFind(m, k) ==
    LET lb == Cardinality({i \in 1..Len(m) : StrLess(m[i].first, k)}) + 1
    IN  IF lb <= Len(m) /\ m[lb].first = k THEN lb ELSE 0

\* multimap::erase(iterator)
MMEraseAt(m, i) == SubSeq(m, 1, i - 1) \o SubSeq(m, i + 1, Len(m))

\* the set of elements of a string_array
Range(v) == {v[i] : i \in 1..Len(v)}

\* std::map : a function on the keys present
NoSections == [n \in {} |-> NoItems]
MapPut(m, n, g) == [x \in (DOMAIN m) \cup {n} |-> IF x = n THEN g ELSE m[x]]

(***************************************************************************)
(* Parse, as a function of the reader and the text.  A reader is the       *)
(* record of the members Parse reads and writes.                           *)
(***************************************************************************)
NONAME == <<"{", "N", "O", "N", "A", "M", "E", "}">>

\* a chkIgnore that skips a section only when it is excluded and not included
chkIgnoreAnd(rd, section) ==
    LET excluded == count(rd.exclude_sections, section) > 0
        included == IF Len(rd.include_sections) # 0
                    THEN count(rd.include_sections, section) > 0
                    ELSE TRUE
    IN  excluded /\ ~included

chkIgnore(rd, section) ==
    LET excluded == count(rd.exclude_sections, section) > 0
        included == IF Len(rd.include_sections) # 0
                    THEN count(rd.include_sections, section) > 0
                    ELSE TRUE
    IN  excluded \/ ~included

\* a flush that lets a second section of the same name pass (map::insert
\* keeps the first)
FlushNoDuplicateCheck(st) ==
    IF st.curSection # Str0 /\ Len(st.itemGroup) # 0
    THEN IF st.curSection \in DOMAIN st.ini_content
         THEN [st EXCEPT !.read_sections = Append(@, st.curSection)]
         ELSE [st EXCEPT !.ini_content = MapPut(@, st.curSection, st.itemGroup),
                         !.read_sections = Append(@, st.curSection)]
    ELSE st

\* "just finished reading a section" / "final section": the section that was
\* open goes into ini_content, unless its name is there already
Flush(st) ==
    IF st.curSection # Str0 /\ Len(st.itemGroup) # 0
    THEN IF st.curSection \in DOMAIN st.ini_content
         THEN [st EXCEPT !.status = "fail"]
         ELSE [st EXCEPT !.ini_content = MapPut(@, st.curSection, st.itemGroup),
                         !.read_sections = Append(@, st.curSection)]
    ELSE st

\* "all included sections has been read": the test that ends the loop
CheckBreak(rd, st) ==
    IF st.status = "scan" /\ Len(rd.include_sections) # 0
                          /\ rd.include_sections = st.read_sections
    THEN [st EXCEPT !.status = "break"]
    ELSE st

\* one turn of the while loop that stores a free-form line also while the
\* open section is being skipped
ParseLineStoreSkipped(rd, st, rawLine) ==
    LET strLine == RemoveCR(rawLine)
    IN  IF \/ Len(strLine) = 0
           \/ Len(strLine) > MAX_LINE_LENGTH
           \/ FindChar(strLine, ";") = 1
           \/ FindChar(strLine, "#") = 1
        THEN st
        ELSE IF regMatchItem(strLine)
        THEN IF st.inExcludedSection THEN st
             ELSE IF Len(st.curSection) = 0 THEN [st EXCEPT !.status = "fail"]
             ELSE CheckBreak(rd,
                    [st EXCEPT !.itemGroup =
                        MMInsert(@, trim(regItemName(strLine)),
                                    trim(regItemVal(strLine)))])
        ELSE IF regMatchSection(strLine)
        THEN LET thisSection == regSectionName(strLine)
                 fl == Flush(st)
             IN  IF fl.status = "fail" THEN fl
                 ELSE CheckBreak(rd,
                        [fl EXCEPT !.inExcludedSection = chkIgnore(rd, thisSection),
                                   !.itemGroup = NoItems,
                                   !.curSection = thisSection])
        ELSE IF rd.store_any_line /\ Len(st.curSection) # 0
        THEN CheckBreak(rd, [st EXCEPT !.itemGroup = MMInsert(@, NONAME, strLine)])
        ELSE CheckBreak(rd, st)

\* one turn of the while loop
ParseLine(rd, st, rawLine) ==
    LET strLine == RemoveCR(rawLine)
    IN  IF \/ Len(strLine) = 0
           \/ Len(strLine) > MAX_LINE_LENGTH
           \/ FindChar(strLine, ";") = 1
           \/ FindChar(strLine, "#") = 1
        THEN st
        ELSE IF regMatchItem(strLine)
        THEN IF st.inExcludedSection THEN st
             ELSE IF Len(st.curSection) = 0 THEN [st EXCEPT !.status = "fail"]
             ELSE CheckBreak(rd,
                    [st EXCEPT !.itemGroup =
                        MMInsert(@, trim(regItemName(strLine)),
                                    trim(regItemVal(strLine)))])
        ELSE IF regMatchSection(strLine)
        THEN LET thisSection == regSectionName(strLine)
                 fl == Flush(st)
             IN  IF fl.status = "fail" THEN fl
                 ELSE CheckBreak(rd,
                        [fl EXCEPT !.inExcludedSection = chkIgnore(rd, thisSection),
                                   !.itemGroup = NoItems,
                                   !.curSection = thisSection])
        ELSE IF rd.store_any_line /\ ~st.inExcludedSection /\ Len(st.curSection) # 0
        THEN CheckBreak(rd, [st EXCEPT !.itemGroup = MMInsert(@, NONAME, strLine)])
        ELSE CheckBreak(rd, st)

\* the while loop over the lines getline yields
RECURSIVE ParseLines(_, _, _)
ParseLines(rd, st, lines) ==
    IF lines = << >> \/ st.status # "scan" THEN st
    ELSE ParseLines(rd, ParseLine(rd, st, Head(lines)), Tail(lines))

\* the lines of a text as Parse reads them
SplitLines(content) ==
    getlines(content, IF CountChar(content, LF) <= 1 THEN CR ELSE LF)

\* Parse(content) on reader rd: the reader afterwards, and the value returned
ParseRun(rd, content) ==
    LET st0 == [inExcludedSection |-> FALSE, curSection |-> Str0,
                itemGroup |-> NoItems,
                ini_content |-> NoSections,          \* EraseAll()
                read_sections |-> rd.read_sections,
                status |-> "scan"]
        st1 == ParseLines(rd, st0, SplitLines(content))
        st2 == IF st1.status = "fail" THEN st1 ELSE Flush(st1)
        ok  == st2.status # "fail"
    IN  [rd EXCEPT !.ini_content = st2.ini_content,
                   !.read_sections = st2.read_sections,
                   !.parsed = ok,
                   !.ret = IF ok THEN 0 ELSE -1]

(***************************************************************************)
(* The reader's state, and the record of the most recent call.             *)
(***************************************************************************)
Reader ==
    [ini_content |-> ini_content, parsed |-> parsed,
     exclude_sections |-> exclude_sections,
     include_sections |-> include_sections,
     read_sections |-> read_sections,
     store_any_line |-> store_any_line, ret |-> 0]

\* a reader as INIReader() constructs it
FreshReader ==
    [ini_content |-> NoSections, parsed |-> FALSE,
     exclude_sections |-> << >>, include_sections |-> << >>,
     read_sections |-> << >>, store_any_line |-> FALSE, ret |-> 0]

\* op: the method called; section, key, value, content: its arguments;
\* ret, val, flag, data: what it returned (int, string, bool, container);
\* threw: it ended in an exception; before: ini_content when a mutator began;
\* unq: the overload without a section argument was called
NoCall ==
    [op |-> "INIReader", section |-> Str0, key |-> Str0, value |-> Str0,
     content |-> Str0, ret |-> 0, val |-> Str0, flag |-> FALSE,
     data |-> << >>, threw |-> FALSE, before |-> NoSections, unq |-> FALSE]

Init ==
    /\ parsed = FALSE
    /\ current_section = Str0
    /\ ini_content = NoSections
    /\ exclude_sections = << >>
    /\ include_sections = << >>
    /\ read_sections = << >>
    /\ cached_section = Str0
    /\ cached_section_content = NoItems
    /\ store_any_line = FALSE
    /\ text = Str0
    /\ last = NoCall

(***************************************************************************)
(* Inputs.                                                                 *)
(***************************************************************************)
sa == <<"a">>
sb == <<"b">>
kx == <<"x">>
ky == <<"y">>
v1 == <<"1">>
v2 == <<"2">>

\* the lines the texts of SpecParse are made of
LinePool ==
    { <<"[", "a", "]">>, <<"[", "b", "]">>, <<"x", "=", "1">>, <<"z">> }

RECURSIVE JoinLines(_)
JoinLines(ls) ==
    IF ls = << >> THEN << >> ELSE Head(ls) \o <<LF>> \o JoinLines(Tail(ls))

\* every text of at most MaxLines lines of LinePool, each ended by "\n"
Texts ==
    { JoinLines(ls) : ls \in UNION { [1..n -> LinePool] : n \in 0..MaxLines } }

\* the caller of SpecParse holds any of these texts
InitParse ==
    /\ parsed = FALSE
    /\ current_section = Str0
    /\ ini_content = NoSections
    /\ exclude_sections = << >>
    /\ include_sections = << >>
    /\ read_sections = << >>
    /\ cached_section = Str0
    /\ cached_section_content = NoItems
    /\ store_any_line = FALSE
    /\ text \in Texts
    /\ last = NoCall

\* a text a reader may parse before or after the caller's:
\* "[a]\r\n x = 2 \r\n"
SeedTexts ==
    { <<"[", "a", "]", CR, LF, " ", "x", " ", "=", " ", "2", " ", CR, LF>> }

\* the callers of SpecParse set the filters and the flag before they parse
Configuring ==
    last.op \in {"INIReader", "ExcludeSection", "IncludeSection", "store_any_line"}

\* the filters the callers of SpecParse build
ExcludeSets == { << >>, <<sa>> }
IncludeSets == { << >>, <<sa>>, <<sb>>, <<sb, sa>> }
FilterNames == {sa, sb}

(***************************************************************************)
(* Configuration and Parse.                                                *)
(***************************************************************************)
ExcludeSection(section) ==
    /\ Configuring
    /\ Append(exclude_sections, section) \in ExcludeSets
    /\ exclude_sections' = Append(exclude_sections, section)
    /\ last' = [NoCall EXCEPT !.op = "ExcludeSection", !.section = section]
    /\ UNCHANGED <<parsed, current_section, ini_content, include_sections,
                   read_sections, cached_section, cached_section_content,
                   store_any_line, text>>

IncludeSection(section) ==
    /\ Configuring
    /\ Append(include_sections, section) \in IncludeSets
    /\ include_sections' = Append(include_sections, section)
    /\ last' = [NoCall EXCEPT !.op = "IncludeSection", !.section = section]
    /\ UNCHANGED <<parsed, current_section, ini_content, exclude_sections,
                   read_sections, cached_section, cached_section_content,
                   store_any_line, text>>

\* the caller assigns the public member store_any_line
SetStoreAnyLine(b) ==
    /\ Configuring
    /\ store_any_line # b
    /\ store_any_line' = b
    /\ last' = [NoCall EXCEPT !.op = "store_any_line", !.flag = b]
    /\ UNCHANGED <<parsed, current_section, ini_content, exclude_sections,
                   include_sections, read_sections, cached_section,
                   cached_section_content, text>>

Parse(content) ==
    /\ Len(read_sections) <= MaxRead
    /\ LET r == ParseRun(Reader, content)
       IN  /\ ini_content' = r.ini_content
           /\ read_sections' = r.read_sections
           /\ parsed' = r.parsed
           /\ last' = [NoCall EXCEPT !.op = "Parse", !.content = content,
                                     !.ret = r.ret]
    /\ UNCHANGED <<current_section, exclude_sections, include_sections,
                   cached_section, cached_section_content, store_any_line,
                   text>>

NextParse ==
    \/ \E n \in FilterNames : ExcludeSection(n)
    \/ \E n \in FilterNames : IncludeSection(n)
    \/ \E b \in BOOLEAN : SetStoreAnyLine(b)
    \/ \E c \in SeedTexts \cup {text} : Parse(c)

SpecParse == InitParse /\ [][NextParse]_vars

(***************************************************************************)
(* Accessors.                                                              *)
(***************************************************************************)
SectionExist(section) == section \in DOMAIN ini_content

\* "if(section != cached_section) { cached_section = section;
\*  cached_section_content = ini_content.at(section); }" : the group a
\* qualified read of an existing section is served from
ReadGroup(section) ==
    IF section # cached_section THEN ini_content[section]
    ELSE cached_section_content

\* what ItemExist(section, itemName) answers
ItemExistRun(section, itemName) ==
    IF ~SectionExist(section) THEN FALSE
    ELSE MMFind(ReadGroup(section), itemName) # 0

ItemExist(section, itemName) ==
    /\ IF ~SectionExist(section)
       THEN UNCHANGED <<cached_section, cached_section_content>>
       ELSE /\ cached_section' = section
            /\ cached_section_content' = ReadGroup(section)
    /\ last' = [NoCall EXCEPT !.op = "ItemExist", !.section = section,
                              !.key = itemName,
                              !.flag = ItemExistRun(section, itemName)]
    /\ UNCHANGED <<parsed, current_section, ini_content, exclude_sections,
                   include_sections, read_sections, store_any_line, text>>

ItemPrefixExist(section, itemName) ==
    /\ IF ~SectionExist(section)
       THEN UNCHANGED <<cached_section, cached_section_content>>
       ELSE /\ cached_section' = section
            /\ cached_section_content' = ReadGroup(section)
    /\ last' = [NoCall EXCEPT
                  !.op = "ItemPrefixExist", !.section = section,
                  !.key = itemName,
                  !.flag = /\ SectionExist(section)
                           /\ \E i \in 1..Len(ReadGroup(section)) :
                                 StartsWith(ReadGroup(section)[i].first, itemName)]
    /\ UNCHANGED <<parsed, current_section, ini_content, exclude_sections,
                   include_sections, read_sections, store_any_line, text>>

\* GetItems(section, data): the value returned and *data
GetItemsRun(section) ==
    IF ~parsed \/ ~SectionExist(section)
    THEN [ret |-> -1, data |-> NoItems]
    ELSE [ret |-> 0, data |-> ReadGroup(section)]

\* the cache after a call of GetItems(section, data)
GetItemsCache(section) ==
    IF ~parsed \/ ~SectionExist(section)
    THEN UNCHANGED <<cached_section, cached_section_content>>
    ELSE /\ cached_section' = section
         /\ cached_section_content' = ReadGroup(section)

GetItems(section) ==
    /\ GetItemsCache(section)
    /\ last' = [NoCall EXCEPT !.op = "GetItems", !.section = section,
                              !.ret = GetItemsRun(section).ret,
                              !.data = GetItemsRun(section).data]
    /\ UNCHANGED <<parsed, current_section, ini_content, exclude_sections,
                   include_sections, read_sections, store_any_line, text>>

\* GetAll(section, itemName, results): the value returned and results
GetAllRun(section, itemName) ==
    LET g == GetItemsRun(section)
    IN  IF ~parsed \/ g.ret # 0 THEN [ret |-> -1, data |-> << >>]
        ELSE [ret |-> 0,
              data |-> LET hit == SelectSeq(g.data,
                                     LAMBDA e : StartsWith(e.first, itemName))
                       IN  [i \in 1..Len(hit) |-> hit[i].second]]

GetAll(section, itemName) ==
    /\ GetItemsCache(section)
    /\ last' = [NoCall EXCEPT !.op = "GetAll", !.section = section,
                              !.key = itemName,
                              !.ret = GetAllRun(section, itemName).ret,
                              !.data = GetAllRun(section, itemName).data]
    /\ UNCHANGED <<parsed, current_section, ini_content, exclude_sections,
                   include_sections, read_sections, store_any_line, text>>

\* what Get(section, itemName) returns: the value of the first pair, in
\* iteration order, whose key is itemName; the empty string otherwise
GetRun(section, itemName) ==
    LET g == GetItemsRun(section)
    IN  IF ~parsed \/ g.ret # 0 THEN Str0
        ELSE LET hit == SelectSeq(g.data, LAMBDA e : e.first = itemName)
             IN  IF hit = << >> THEN Str0 ELSE hit[1].second

Get(section, itemName) ==
    /\ GetItemsCache(section)
    /\ last' = [NoCall EXCEPT !.op = "Get", !.section = section,
                              !.key = itemName,
                              !.val = GetRun(section, itemName)]
    /\ UNCHANGED <<parsed, current_section, ini_content, exclude_sections,
                   include_sections, read_sections, store_any_line, text>>

\* an EnterSection that moves the cursor before it looks for the section
EnterSectionCursorFirst(section) ==
    /\ current_section' = section
    /\ IF ~SectionExist(section)
       THEN /\ last' = [NoCall EXCEPT !.op = "EnterSection",
                                      !.section = section, !.ret = -1]
            /\ UNCHANGED <<cached_section, cached_section_content>>
       ELSE /\ cached_section' = section
            /\ cached_section_content' = ini_content[section]
            /\ last' = [NoCall EXCEPT !.op = "EnterSection",
                                      !.section = section, !.ret = 0]
    /\ UNCHANGED <<parsed, ini_content, exclude_sections, include_sections,
                   read_sections, store_any_line, text>>

EnterSection(section) ==
    /\ IF ~SectionExist(section)
       THEN /\ last' = [NoCall EXCEPT !.op = "EnterSection",
                                      !.section = section, !.ret = -1]
            /\ UNCHANGED <<current_section, cached_section,
                           cached_section_content>>
       ELSE /\ current_section' = section
            /\ cached_section' = section
            /\ cached_section_content' = ini_content[section]
            /\ last' = [NoCall EXCEPT !.op = "EnterSection",
                                      !.section = section, !.ret = 0]
    /\ UNCHANGED <<parsed, ini_content, exclude_sections, include_sections,
                   read_sections, store_any_line, text>>

(***************************************************************************)
(* Mutators.                                                               *)
(***************************************************************************)
EraseAll ==
    /\ ini_content' = NoSections
    /\ parsed' = FALSE
    /\ last' = [NoCall EXCEPT !.op = "EraseAll"]
    /\ UNCHANGED <<current_section, exclude_sections, include_sections,
                   read_sections, cached_section, cached_section_content,
                   store_any_line, text>>

Set(section, itemName, itemVal) ==
    /\ SectionExist(section) => Len(ini_content[section]) < MaxItems
    /\ parsed' = TRUE
    /\ ini_content' =
          MapPut(ini_content, section,
                 MMInsert(IF SectionExist(section) THEN ini_content[section]
                          ELSE NoItems,
                          itemName, itemVal))
    /\ last' = [NoCall EXCEPT !.op = "Set", !.section = section,
                              !.key = itemName, !.value = itemVal,
                              !.ret = 0, !.before = ini_content]
    /\ UNCHANGED <<current_section, exclude_sections, include_sections,
                   read_sections, cached_section, cached_section_content,
                   store_any_line, text>>

Erase(section, itemName) ==
    /\ IF ~SectionExist(section)
       THEN /\ last' = [NoCall EXCEPT !.op = "Erase", !.section = section,
                                      !.key = itemName, !.ret = -1,
                                      !.before = ini_content]
            /\ UNCHANGED <<ini_content, cached_section_content>>
       ELSE LET retVal == MMCount(ini_content[section], itemName)
                erased == MMEraseKey(ini_content[section], itemName)
            IN  /\ ini_content' = [ini_content EXCEPT ![section] = erased]
                /\ cached_section_content' =
                      IF retVal # 0 /\ cached_section = section THEN erased
                      ELSE cached_section_content
                /\ last' = [NoCall EXCEPT !.op = "Erase", !.section = section,
                                          !.key = itemName, !.ret = retVal,
                                          !.before = ini_content]
    /\ UNCHANGED <<parsed, current_section, exclude_sections,
                   include_sections, read_sections, cached_section,
                   store_any_line, text>>

\* ini_content.at(section) throws std::out_of_range when the section is
\* absent: the call ends there, with nothing changed
EraseFirst(section, itemName) ==
    /\ IF ~SectionExist(section)
       THEN /\ last' = [NoCall EXCEPT !.op = "EraseFirst",
                                      !.section = section, !.key = itemName,
                                      !.threw = TRUE, !.before = ini_content]
            /\ UNCHANGED <<ini_content, cached_section_content>>
       ELSE LET mapTemp == ini_content[section]
                iter == MMFind(mapTemp, itemName)
            IN  IF iter # 0
                THEN /\ ini_content' =
                          [ini_content EXCEPT ![section] = MMEraseAt(mapTemp, iter)]
                     /\ cached_section_content' =
                          IF cached_section = section
                          THEN MMEraseAt(mapTemp, iter)
                          ELSE cached_section_content
                     /\ last' = [NoCall EXCEPT !.op = "EraseFirst",
                                               !.section = section,
                                               !.key = itemName, !.ret = 0,
                                               !.before = ini_content]
                ELSE /\ last' = [NoCall EXCEPT !.op = "EraseFirst",
                                               !.section = section,
                                               !.key = itemName, !.ret = -1,
                                               !.before = ini_content]
                     /\ UNCHANGED <<ini_content, cached_section_content>>
    /\ UNCHANGED <<parsed, current_section, exclude_sections,
                   include_sections, read_sections, cached_section,
                   store_any_line, text>>

(***************************************************************************)
(* ToString, and reading its text back.                                    *)
(***************************************************************************)
\* the keys of a std::map in iteration order
RECURSIVE SortedNames(_)
SortedNames(S) ==
    IF S = {} THEN << >>
    ELSE LET n == CHOOSE x \in S : \A y \in S \ {x} : StrLess(x, y)
         IN  <<n>> \o SortedNames(S \ {n})

\* the lines ToString writes for the items of one section
RECURSIVE ItemLines(_)
ItemLines(g) ==
    IF g = << >> THEN << >>
    ELSE (IF Head(g).first # NONAME THEN Head(g).first \o <<" ", "=", " ">>
          ELSE << >>)
         \o Head(g).second \o <<LF>> \o ItemLines(Tail(g))

RECURSIVE SectionTexts(_, _)
SectionTexts(rd, names) ==
    IF names = << >> THEN << >>
    ELSE <<"[">> \o Head(names) \o <<"]", LF>>
         \o ItemLines(rd.ini_content[Head(names)]) \o <<LF>>
         \o SectionTexts(rd, Tail(names))

ToString(rd) ==
    IF ~rd.parsed THEN Str0
    ELSE SectionTexts(rd, SortedNames(DOMAIN rd.ini_content))

\* "INIReader copy; copy.Parse(ToString());" : last.content is the text,
\* last.ret what Parse returned, last.data the copy's ini_content
RoundTrip ==
    /\ LET r == ParseRun(FreshReader, ToString(Reader))
       IN  last' = [NoCall EXCEPT !.op = "RoundTrip",
                                 !.content = ToString(Reader),
                                 !.ret = r.ret, !.data = r.ini_content]
    /\ UNCHANGED <<parsed, current_section, ini_content, exclude_sections,
                   include_sections, read_sections, cached_section,
                   cached_section_content, store_any_line, text>>

(***************************************************************************)
(* The specification of the accessors and mutators.                        *)
(***************************************************************************)
SectionNames == {sa, sb}
ItemNames == {kx, ky}
\* the (section, itemName, itemVal) the callers of Spec hand to Set
SetArgs == { <<sa, kx, v1>>, <<sa, kx, v2>>, <<sa, ky, v1>>, <<sb, kx, v1>> }
\* the prefixes handed to ItemPrefixExist and GetAll
Prefixes == {kx}

\* the callers of Spec build the Document with Set
Next ==
    \/ \E a \in SetArgs : Set(a[1], a[2], a[3])
    \/ \E n \in SectionNames, k \in ItemNames : Erase(n, k)
    \/ \E n \in SectionNames, k \in ItemNames : EraseFirst(n, k)
    \/ EraseAll
    \/ \E n \in SectionNames : EnterSection(n)
    \/ \E n \in SectionNames, k \in ItemNames : ItemExist(n, k)
    \/ \E n \in SectionNames, k \in Prefixes : ItemPrefixExist(n, k)
    \/ \E n \in SectionNames : GetItems(n)
    \/ \E n \in SectionNames, k \in ItemNames : Get(n, k)
    \/ \E n \in SectionNames, k \in Prefixes : GetAll(n, k)
    \/ RoundTrip

Spec == Init /\ [][Next]_vars

(***************************************************************************)
(* The lines of a text, as the claims about Parse speak of them.           *)
(***************************************************************************)
\* the lines Parse looks at: split, "\r" removed
LinesOf(content) ==
    LET ls == SplitLines(content) IN [i \in 1..Len(ls) |-> RemoveCR(ls[i])]

\* empty, too long, or a comment
IsIgnoredLine(l) ==
    Len(l) = 0 \/ Len(l) > MAX_LINE_LENGTH \/ l[1] = ";" \/ l[1] = "#"
IsItemLine(l) == ~IsIgnoredLine(l) /\ regMatchItem(l)
IsHeaderLine(l) == ~IsIgnoredLine(l) /\ ~regMatchItem(l) /\ regMatchSection(l)

\* an item line follows header line i before any other header line
HasItemAfter(ls, i) ==
    \E k \in (i + 1)..Len(ls) :
        /\ IsItemLine(ls[k])
        /\ \A m \in (i + 1)..(k - 1) : ~IsHeaderLine(ls[m])

\* two header lines carry the same name
TwoHeadersSameName(ls) ==
    \E i, j \in 1..Len(ls) :
        i < j /\ IsHeaderLine(ls[i]) /\ IsHeaderLine(ls[j]) /\ ls[i] = ls[j]

\* two header lines carry the same non-empty name, which is not excluded,
\* and an item line follows each of them before the next header line
TwoHeadersSameNameWithItems(ls, excluded) ==
    \E i, j \in 1..Len(ls) :
        /\ i < j /\ IsHeaderLine(ls[i]) /\ IsHeaderLine(ls[j]) /\ ls[i] = ls[j]
        /\ Len(ls[i]) > 2
        /\ regSectionName(ls[i]) \notin Range(excluded)
        /\ HasItemAfter(ls, i) /\ HasItemAfter(ls, j)

\* an item line comes before every header line
ItemBeforeAnyHeader(ls) ==
    \E k \in 1..Len(ls) :
        IsItemLine(ls[k]) /\ \A m \in 1..(k - 1) : ~IsHeaderLine(ls[m])

(***************************************************************************)
(* Claims about Parse (SpecParse).                                         *)
(***************************************************************************)
\* C3, as claimed: whenever two section-header lines of the text carry the
\* same name, Parse returns failure, whatever the filters are and whether or
\* not either occurrence has items.
C3_DuplicateHeadersFail ==
    (last.op = "Parse" /\ TwoHeadersSameName(LinesOf(last.content)))
        => last.ret = -1

\* C3, amended: with an empty include-set, whenever two section-header lines
\* carry the same non-empty name that is not excluded and each is followed
\* by an item line before the next header line, Parse returns failure.
C3_FlushedTwiceFails ==
    (/\ last.op = "Parse"
     /\ include_sections = << >>
     /\ TwoHeadersSameNameWithItems(LinesOf(last.content), exclude_sections))
        => last.ret = -1

C3_Witness ==
    /\ last.op = "Parse"
    /\ include_sections = << >>
    /\ TwoHeadersSameNameWithItems(LinesOf(last.content), exclude_sections)
    /\ last.ret = -1
    /\ DOMAIN ini_content # {}

\* C4: whenever Parse returns failure the Document has no sections and
\* parsed is false; and in every state where parsed is false the Document
\* has no sections.
C4_FailureLeavesDocumentEmpty ==
    /\ (last.op = "Parse" /\ last.ret = -1)
            => (DOMAIN ini_content = {} /\ ~parsed)
    /\ ~parsed => DOMAIN ini_content = {}

\* C5: whenever an item line of the text comes before any section-header
\* line, Parse returns failure and parsed stays false.
C5_ItemOutsideSectionFails ==
    (last.op = "Parse" /\ ItemBeforeAnyHeader(LinesOf(last.content)))
        => (last.ret = -1 /\ ~parsed)

\* C6: after a successful Parse no section of the Document is named in the
\* exclude-set, and with a non-empty include-set every section of the
\* Document is named in it.
C6_FiltersHonoured ==
    (last.op = "Parse" /\ last.ret = 0)
        => \A n \in DOMAIN ini_content :
              /\ n \notin Range(exclude_sections)
              /\ (include_sections # << >> => n \in Range(include_sections))

\* a text with sections a and b, both with items, parsed with a excluded
C6_Witness ==
    /\ last.op = "Parse" /\ last.ret = 0
    /\ exclude_sections = <<sa>>
    /\ \E i \in 1..Len(LinesOf(last.content)) :
          /\ LinesOf(last.content)[i] = <<"[", "a", "]">>
          /\ HasItemAfter(LinesOf(last.content), i)
    /\ DOMAIN ini_content = {sb}

\* the same with the include-set: only the included section is kept
C6_WitnessInclude ==
    /\ last.op = "Parse" /\ last.ret = 0
    /\ include_sections = <<sb>> /\ exclude_sections = << >>
    /\ \E i \in 1..Len(LinesOf(last.content)) :
          /\ LinesOf(last.content)[i] = <<"[", "a", "]">>
          /\ HasItemAfter(LinesOf(last.content), i)
    /\ DOMAIN ini_content = {sb}

(***************************************************************************)
(* Claims about the accessors and mutators (Spec).                         *)
(***************************************************************************)
\* the positions of the items of group g whose key is k
KeyPositions(g, k) == {i \in 1..Len(g) : g[i].first = k}
\* the least of a non-empty set of positions
Least(P) == CHOOSE i \in P : \A j \in P : i <= j

\* C1: whenever the cached section name is a section of the Document, the
\* cached item group equals the Document's item group for that section.
C1_CacheCoherent ==
    cached_section \in DOMAIN ini_content
        => cached_section_content = ini_content[cached_section]

\* C2: right after Set(section, key, value), Get(section, key) returns the
\* value of the first item with that key in the Document's group, so never
\* the empty string when value is non-empty and the key was absent before.
C2_GetAfterSet ==
    last.op = "Set"
        => LET g == ini_content[last.section]
           IN  GetRun(last.section, last.key)
                   = g[Least(KeyPositions(g, last.key))].second

\* C7: after Erase(section, key) on an existing section, ItemExist(section,
\* key) returns false, the Document's group holds no item with that key, and
\* the value returned is the number of items removed.
C7_EraseThenItemExist ==
    (last.op = "Erase" /\ last.section \in DOMAIN last.before)
        => /\ ~ItemExistRun(last.section, last.key)
           /\ KeyPositions(ini_content[last.section], last.key) = {}
           /\ last.ret = Cardinality(KeyPositions(last.before[last.section],
                                                  last.key))

\* C8: EraseFirst(section, key) on a section with n >= 1 items of that key
\* returns 0 and removes the first of them and nothing else: the group is
\* the old one without that position, n - 1 items keep the key, every other
\* section is as before, and a read of the section is served the new group.
C8_EraseFirstRemovesFirst ==
    (/\ last.op = "EraseFirst"
     /\ last.section \in DOMAIN last.before
     /\ KeyPositions(last.before[last.section], last.key) # {})
        => LET old == last.before[last.section]
               new == ini_content[last.section]
               p   == Least(KeyPositions(old, last.key))
           IN  /\ last.ret = 0 /\ ~last.threw
               /\ DOMAIN ini_content = DOMAIN last.before
               /\ Len(new) = Len(old) - 1
               /\ \A i \in 1..Len(new) :
                     new[i] = IF i < p THEN old[i] ELSE old[i + 1]
               /\ Cardinality(KeyPositions(new, last.key))
                     = Cardinality(KeyPositions(old, last.key)) - 1
               /\ \A n \in DOMAIN ini_content \ {last.section} :
                     ini_content[n] = last.before[n]
               /\ ReadGroup(last.section) = new
               /\ ItemExistRun(last.section, last.key)
                     = (KeyPositions(new, last.key) # {})

\* EraseFirst on the cached section, which held the key twice with two
\* values: the second value is the one left
C8_Witness ==
    /\ last.op = "EraseFirst" /\ last.ret = 0
    /\ last.section \in DOMAIN last.before
    /\ cached_section = last.section
    /\ LET old == last.before[last.section]
       IN  /\ Cardinality(KeyPositions(old, last.key)) = 2
           /\ \E i, j \in KeyPositions(old, last.key) :
                 i < j /\ old[i].second # old[j].second
                       /\ ini_content[last.section] = <<old[j]>>

\* C9: EraseFirst(section, key) with a section that is not in the Document
\* returns -1, changes nothing, and does not end in an exception.
C9_EraseFirstAbsentSection ==
    (last.op = "EraseFirst" /\ last.section \notin DOMAIN last.before)
        => (last.ret = -1 /\ ~last.threw /\ ini_content = last.before)

\* C10: for a parsed Document without {NONAME} items, Parse of ToString()
\* on a fresh reader succeeds and yields the same sections with the same
\* item groups in the same order.
C10_RoundTrip ==
    (/\ last.op = "RoundTrip"
     /\ parsed
     /\ \A n \in DOMAIN ini_content : KeyPositions(ini_content[n], NONAME) = {})
        => (last.ret = 0 /\ last.data = ini_content)

(***************************************************************************)
(* Claims about repeated and early-stopped parsing (SpecParse).            *)
(***************************************************************************)
\* a reader constructed afresh and given this reader's filters and flag
FreshConfigured ==
    [FreshReader EXCEPT !.exclude_sections = exclude_sections,
                        !.include_sections = include_sections,
                        !.store_any_line = store_any_line]

\* C13: the result code and the Document of Parse(content) are those a
\* freshly constructed reader with the same include-set, exclude-set and
\* flag gives for content, whatever Parse calls the reader served before.
C13_ParseCleanSlate ==
    last.op = "Parse"
        => LET r == ParseRun(FreshConfigured, last.content)
           IN  last.ret = r.ret /\ ini_content = r.ini_content

\* a section name no text and no filter uses
NeverRead == <<"#">>

\* a reader whose log of read sections can never equal its include-set, so
\* that Parse scans every line: the log only grows at its end and its first
\* entry is in no include-set
FullScan(rd) == [rd EXCEPT !.read_sections = <<NeverRead>>]

\* C16: for every text and every include/exclude configuration, Parse on a
\* fresh reader returns the result code and the Document that a scan of all
\* lines without the early stop returns.
C16_EarlyStopIsOptimisation ==
    last.op = "Parse"
        => LET r == ParseRun(FreshConfigured, last.content)
               f == ParseRun(FullScan(FreshConfigured), last.content)
           IN  r.ret = f.ret /\ r.ini_content = f.ini_content

(***************************************************************************)
(* Parsing texts with free-form lines and bracketed lines that hold '='.   *)
(***************************************************************************)
\* the lines the texts of SpecLines are made of
LinePoolLines ==
    { <<"[", "a", "]">>, <<"[", "b", "]">>, <<"[", "a", "=", "b", "]">>,
      <<"x", "=", "1">>, <<"z">> }

\* every text of at most MaxLines lines of LinePoolLines, each ended by "\n"
TextsLines ==
    { JoinLines(ls) :
        ls \in UNION { [1..n -> LinePoolLines] : n \in 0..MaxLines } }

\* the caller of SpecLines holds any of these texts
InitLines ==
    /\ parsed = FALSE
    /\ current_section = Str0
    /\ ini_content = NoSections
    /\ exclude_sections = << >>
    /\ include_sections = << >>
    /\ read_sections = << >>
    /\ cached_section = Str0
    /\ cached_section_content = NoItems
    /\ store_any_line = FALSE
    /\ text \in TextsLines
    /\ last = NoCall

\* the caller may exclude section a and switch free-form capture, then parses
NextLines ==
    \/ ExcludeSection(sa)
    \/ \E b \in BOOLEAN : SetStoreAnyLine(b)
    \/ Parse(text)

SpecLines == InitLines /\ [][NextLines]_vars

(***************************************************************************)
(* Claims about the classification of lines (SpecLines).                   *)
(***************************************************************************)
\* a processed line that matches the section-header pattern
MatchesHeader(l) == ~IsIgnoredLine(l) /\ regMatchSection(l)
\* a processed line that matches the item pattern but not the header pattern
MatchesItemOnly(l) ==
    ~IsIgnoredLine(l) /\ ~regMatchSection(l) /\ regMatchItem(l)

\* C17: every processed line that matches the section-header pattern is
\* treated as a section header, also when it holds '='.  So, with no
\* filters, a text in which a line matching the header pattern comes before
\* every other item line, and in which no two such lines are equal, parses
\* with success, and each such line that is followed by an item line before
\* the next one names a section of the Document.
C17_HeaderPatternFirst ==
    LET ls == LinesOf(last.content)
    IN  (/\ last.op = "Parse"
         /\ exclude_sections = << >>
         /\ \A k \in 1..Len(ls) :
                MatchesItemOnly(ls[k])
                    => \E m \in 1..(k - 1) : MatchesHeader(ls[m])
         /\ \A i, j \in 1..Len(ls) :
                (i < j /\ MatchesHeader(ls[i]) /\ MatchesHeader(ls[j]))
                    => ls[i] # ls[j])
            => /\ last.ret = 0
               /\ \A i \in 1..Len(ls) :
                    (/\ MatchesHeader(ls[i])
                     /\ \E k \in (i + 1)..Len(ls) :
                            /\ MatchesItemOnly(ls[k])
                            /\ \A m \in (i + 1)..(k - 1) : ~MatchesHeader(ls[m]))
                        => regSectionName(ls[i]) \in DOMAIN ini_content

\* a processed line that is neither an item nor a section title
IsFreeFormLine(l) ==
    ~IsIgnoredLine(l) /\ ~regMatchItem(l) /\ ~regMatchSection(l)

\* the free-form lines that follow header line i before the next header
\* line, in the order of the text
RECURSIVE FreeFormFrom(_, _)
FreeFormFrom(ls, k) ==
    IF k > Len(ls) \/ IsHeaderLine(ls[k]) THEN << >>
    ELSE IF IsFreeFormLine(ls[k]) THEN <<ls[k]>> \o FreeFormFrom(ls, k + 1)
    ELSE FreeFormFrom(ls, k + 1)

\* the values of the {NONAME} items of a group, in group order
RECURSIVE NonameValues(_)
NonameValues(g) ==
    IF g = << >> THEN << >>
    ELSE IF Head(g).first = NONAME
         THEN <<Head(g).second>> \o NonameValues(Tail(g))
         ELSE NonameValues(Tail(g))

\* the state of the while loop before the first line
LoopStart(rd) ==
    [inExcludedSection |-> FALSE, curSection |-> Str0, itemGroup |-> NoItems,
     ini_content |-> NoSections, read_sections |-> rd.read_sections,
     status |-> "scan"]

\* how many lines the while loop reads before it ends (by the end of the
\* text, by "return -1" or by "break")
RECURSIVE LinesReadFrom(_, _, _)
LinesReadFrom(rd, st, lines) ==
    IF lines = << >> \/ st.status # "scan" THEN 0
    ELSE 1 + LinesReadFrom(rd, ParseLine(rd, st, Head(lines)), Tail(lines))

\* the lines reader rd reads of content, "\r" removed
LinesRead(rd, content) ==
    SubSeq(LinesOf(content), 1,
           LinesReadFrom(rd, LoopStart(rd), SplitLines(content)))

SetCurrentSection(section) ==
    /\ current_section' = section
    /\ last' = [NoCall EXCEPT !.op = "SetCurrentSection", !.section = section]
    /\ UNCHANGED <<parsed, ini_content, exclude_sections, include_sections,
                   read_sections, cached_section, cached_section_content,
                   store_any_line, text>>

\* itemVal ? "true" : "false"
BoolText(itemVal) ==
    IF itemVal THEN <<"t", "r", "u", "e">> ELSE <<"f", "a", "l", "s", "e">>

Digit(d) ==
    CASE d = 0 -> "0" [] d = 1 -> "1" [] d = 2 -> "2" [] d = 3 -> "3"
      [] d = 4 -> "4" [] d = 5 -> "5" [] d = 6 -> "6" [] d = 7 -> "7"
      [] d = 8 -> "8" [] d = 9 -> "9"

\* std::to_string of an integer
RECURSIVE to_string_long(_)
to_string_long(n) ==
    IF n < 0 THEN <<"-">> \o to_string_long(-n)
    ELSE IF n < 10 THEN <<Digit(n)>>
    ELSE to_string_long(n \div 10) \o <<Digit(n % 10)>>

\* std::to_string of a double that holds a whole number: "%f", six decimals
to_string_double(n) ==
    to_string_long(n) \o <<".", "0", "0", "0", "0", "0", "0">>

\* "data += to_string(x) + separator" for every x of Array
RECURSIVE JoinArray(_, _)
JoinArray(Array, separator) ==
    IF Array = << >> THEN Str0
    ELSE to_string_long(Head(Array)) \o separator
            \o JoinArray(Tail(Array), separator)

\* "data.substr(0, data.size() - separator.size())": the difference is
\* unsigned, so when data is shorter than separator the whole of data is kept
ArrayText(Array, separator) ==
    LET data == JoinArray(Array, separator)
    IN  IF Len(data) >= Len(separator)
        THEN SubSeq(data, 1, Len(data) - Len(separator))
        ELSE data

\* Set(section, itemName, itemVal) reached through another setter, which
\* call records
SetCall(call, section, itemName, itemVal) ==
    /\ SectionExist(section) => Len(ini_content[section]) < MaxItems
    /\ parsed' = TRUE
    /\ ini_content' =
          MapPut(ini_content, section,
                 MMInsert(IF SectionExist(section) THEN ini_content[section]
                          ELSE NoItems,
                          itemName, itemVal))
    /\ last' = [call EXCEPT !.ret = 0]
    /\ UNCHANGED <<current_section, exclude_sections, include_sections,
                   read_sections, cached_section, cached_section_content,
                   store_any_line, text>>

\* the call of a setter without a section argument
SetterCall(op, itemName, itemVal) ==
    [NoCall EXCEPT !.op = op, !.unq = TRUE, !.section = current_section,
                   !.key = itemName, !.value = itemVal,
                   !.before = ini_content]

\* a call that returned without touching the reader
Returned(call) ==
    /\ last' = call
    /\ UNCHANGED <<parsed, current_section, ini_content, exclude_sections,
                   include_sections, read_sections, cached_section,
                   cached_section_content, store_any_line, text>>

\* Set(itemName, itemVal)
SetInCurrent(itemName, itemVal) ==
    IF Len(current_section) = 0
    THEN Returned([SetterCall("Set", itemName, itemVal) EXCEPT !.ret = -1])
    ELSE SetCall(SetterCall("Set", itemName, itemVal),
                 current_section, itemName, itemVal)

\* SetBool(itemName, itemVal): SetBool(current_section, itemName, itemVal),
\* which is Set(section, itemName, itemVal ? "true" : "false")
SetBoolInCurrent(itemName, itemVal) ==
    SetCall(SetterCall("SetBool", itemName, BoolText(itemVal)),
            current_section, itemName, BoolText(itemVal))

\* SetDouble(itemName, itemVal): SetDouble(current_section, itemName,
\* itemVal), which is Set(section, itemName, to_string(itemVal))
SetDoubleInCurrent(itemName, itemVal) ==
    SetCall(SetterCall("SetDouble", itemName, to_string_double(itemVal)),
            current_section, itemName, to_string_double(itemVal))

\* SetLong(itemName, itemVal): SetLong(current_section, itemName, itemVal),
\* which is Set(section, itemName, to_string(itemVal))
SetLongInCurrent(itemName, itemVal) ==
    SetCall(SetterCall("SetLong", itemName, to_string_long(itemVal)),
            current_section, itemName, to_string_long(itemVal))

\* SetArray(itemName, separator, Array)
SetArrayInCurrent(itemName, separator, Array) ==
    IF current_section = Str0
    THEN Returned([SetterCall("SetArray", itemName, Str0) EXCEPT !.ret = -1])
    ELSE SetCall(SetterCall("SetArray", itemName, ArrayText(Array, separator)),
                 current_section, itemName, ArrayText(Array, separator))

\* the names the callers of SpecSetters and SpecCursor make the cursor
CursorNames == {Str0, sa}
\* the whole numbers handed to SetDouble and SetLong
Numbers == {1}
\* the arrays handed to SetArray, and the separator
Arrays == { <<1, 2>> }
Comma == <<",">>

\* a caller moves the cursor and adds items through the setters without a
\* section argument
NextSetters ==
    \/ \E n \in CursorNames : SetCurrentSection(n)
    \/ SetInCurrent(kx, v1)
    \/ \E b \in BOOLEAN : SetBoolInCurrent(kx, b)
    \/ \E d \in Numbers : SetDoubleInCurrent(kx, d)
    \/ \E d \in Numbers : SetLongInCurrent(kx, d)
    \/ \E A \in Arrays : SetArrayInCurrent(kx, Comma, A)

SpecSetters == Init /\ [][NextSetters]_vars

(***************************************************************************)
(* Claims about the setters without a section argument (SpecSetters).      *)
(***************************************************************************)
\* C11: when the cursor is empty, a setter without a section argument (Set,
\* SetBool, SetDouble, SetLong, SetArray) returns -1 and leaves the Document
\* unchanged.
C11_EmptyCursorFails ==
    (last.unq /\ last.section = Str0)
        => (last.ret = -1 /\ ini_content = last.before)

\* C12: every section name that is a key of the Document is a non-empty
\* string.
C12_SectionNamesNonEmpty ==
    \A n \in DOMAIN ini_content : n # Str0

(***************************************************************************)
(* GetBool, GetFirst and the overloads that work on the cursor.            *)
(***************************************************************************)
\* GetBool(section, itemName): Get(section, itemName) == "true"
GetBool(section, itemName) ==
    /\ GetItemsCache(section)
    /\ last' = [NoCall EXCEPT !.op = "GetBool", !.section = section,
                              !.key = itemName,
                              !.flag = (GetRun(section, itemName) = BoolText(TRUE))]
    /\ UNCHANGED <<parsed, current_section, ini_content, exclude_sections,
                   include_sections, read_sections, store_any_line, text>>

\* a string that is none of the values of the Document
Garbage == <<"?">>

\* "return result[0]" on an empty vector is undefined: the read may give an
\* empty string, give whatever lies at the address, or end the process
EmptyFront ==
    { [val |-> Str0, threw |-> FALSE], [val |-> Garbage, threw |-> FALSE],
      [val |-> Str0, threw |-> TRUE] }

\* GetFirst(section, itemName); ret and data are what its call of GetAll
\* returned
GetFirst(section, itemName) ==
    /\ IF ~parsed
       THEN /\ last' = [NoCall EXCEPT !.op = "GetFirst", !.section = section,
                                      !.key = itemName, !.ret = -1]
            /\ UNCHANGED <<cached_section, cached_section_content>>
       ELSE LET r == GetAllRun(section, itemName)
                call == [NoCall EXCEPT !.op = "GetFirst", !.section = section,
                                       !.key = itemName, !.ret = r.ret,
                                       !.data = r.data]
            IN  /\ GetItemsCache(section)
                /\ IF r.ret = -1 THEN last' = call
                   ELSE IF r.data # << >>
                   THEN last' = [call EXCEPT !.val = r.data[1]]
                   ELSE \E o \in EmptyFront :
                            last' = [call EXCEPT !.val = o.val,
                                                 !.threw = o.threw]
    /\ UNCHANGED <<parsed, current_section, ini_content, exclude_sections,
                   include_sections, read_sections, store_any_line, text>>

\* the call of an overload without a section argument that finds the cursor
\* empty; it returns the failure value of its type
CursorCall(op, itemName) ==
    [NoCall EXCEPT !.op = op, !.unq = TRUE, !.key = itemName,
                   !.before = ini_content]

\* ItemExist(itemName)
ItemExistInCurrent(itemName) ==
    IF current_section # Str0 THEN ItemExist(current_section, itemName)
    ELSE Returned([CursorCall("ItemExist", itemName) EXCEPT !.flag = FALSE])

\* ItemPrefixExist(itemName)
ItemPrefixExistInCurrent(itemName) ==
    IF current_section # Str0 THEN ItemPrefixExist(current_section, itemName)
    ELSE Returned([CursorCall("ItemPrefixExist", itemName) EXCEPT !.flag = FALSE])

\* GetItems(data)
GetItemsInCurrent ==
    IF current_section # Str0 THEN GetItems(current_section)
    ELSE Returned([CursorCall("GetItems", Str0) EXCEPT !.ret = -1])

\* GetAll(itemName, results)
GetAllInCurrent(itemName) ==
    IF current_section # Str0 THEN GetAll(current_section, itemName)
    ELSE Returned([CursorCall("GetAll", itemName) EXCEPT !.ret = -1])

\* Get(itemName)
GetInCurrent(itemName) ==
    IF current_section # Str0 THEN Get(current_section, itemName)
    ELSE Returned([CursorCall("Get", itemName) EXCEPT !.val = Str0])

\* GetBool(itemName)
GetBoolInCurrent(itemName) ==
    IF current_section # Str0 THEN GetBool(current_section, itemName)
    ELSE Returned([CursorCall("GetBool", itemName) EXCEPT !.flag = FALSE])

\* GetFirst(itemName)
GetFirstInCurrent(itemName) ==
    IF current_section # Str0 THEN GetFirst(current_section, itemName)
    ELSE Returned([CursorCall("GetFirst", itemName) EXCEPT !.val = Str0])

\* Erase(itemName)
EraseInCurrent(itemName) ==
    IF current_section # Str0 THEN Erase(current_section, itemName)
    ELSE Returned([CursorCall("Erase", itemName) EXCEPT !.ret = -1])

\* EraseFirst(itemName)
EraseFirstInCurrent(itemName) ==
    IF current_section # Str0 THEN EraseFirst(current_section, itemName)
    ELSE Returned([CursorCall("EraseFirst", itemName) EXCEPT !.ret = -1])

\* the values handed to Set(itemName, itemVal)
CursorValues == {v1, v2}
\* what the callers of SpecCursor do to section b, with its name
OtherArgs == {<<sb, kx, v1>>}

\* a caller moves the cursor, works on the section under it, and works on
\* section b by name
NextCursor ==
    \/ \E n \in CursorNames : SetCurrentSection(n)
    \/ \E n \in SectionNames : EnterSection(n)
    \/ \E v \in CursorValues : SetInCurrent(kx, v)
    \/ \E k \in ItemNames : ItemExistInCurrent(k)
    \/ \E k \in ItemNames : ItemPrefixExistInCurrent(k)
    \/ GetItemsInCurrent
    \/ \E k \in ItemNames : GetAllInCurrent(k)
    \/ \E k \in ItemNames : GetInCurrent(k)
    \/ \E k \in ItemNames : GetBoolInCurrent(k)
    \/ \E k \in ItemNames : GetFirstInCurrent(k)
    \/ \E k \in ItemNames : EraseInCurrent(k)
    \/ \E k \in ItemNames : EraseFirstInCurrent(k)
    \/ \E a \in OtherArgs : Set(a[1], a[2], a[3])
    \/ \E a \in OtherArgs : Get(a[1], a[2])
    \/ \E a \in OtherArgs : Erase(a[1], a[2])

SpecCursor == Init /\ [][NextCursor]_vars

(***************************************************************************)
(* Claims about GetFirst and the cursor (SpecCursor).                      *)
(***************************************************************************)
\* C14: GetFirst(section, prefix) on a parsed Document in which the section
\* exists and no item key starts with prefix returns the empty string, and
\* GetFirst never takes element 0 of an empty GetAll result.
C14_GetFirstNoMatch ==
    last.op = "GetFirst"
        => /\ (/\ parsed /\ SectionExist(last.section)
               /\ \A i \in 1..Len(ini_content[last.section]) :
                     ~StartsWith(ini_content[last.section][i].first, last.key))
                  => (last.val = Str0 /\ ~last.threw)
           /\ ~(last.ret = 0 /\ last.data = << >>)


\* C19: a step that is a call of EnterSection(name) with name absent from
\* the Document returns -1 and leaves cursor, cached name, cached snapshot
\* and Document unchanged; with name present it returns 0 and sets cursor
\* and cached name to name and the snapshot to the Document's group for
\* name.  A call of SetCurrentSection(name) sets the cursor to name and
\* leaves cache and Document unchanged.  No other call changes the cursor.
C19_CursorFrame ==
    [][/\ (last'.op = "EnterSection" /\ ~SectionExist(last'.section))
            => /\ last'.ret = -1
               /\ UNCHANGED <<current_section, cached_section,
                              cached_section_content, ini_content>>
       /\ (last'.op = "EnterSection" /\ SectionExist(last'.section))
            => /\ last'.ret = 0
               /\ current_section' = last'.section
               /\ cached_section' = last'.section
               /\ cached_section_content' = ini_content[last'.section]
               /\ ini_content' = ini_content
       /\ last'.op = "SetCurrentSection"
            => /\ current_section' = last'.section
               /\ UNCHANGED <<cached_section, cached_section_content,
                              ini_content>>
       /\ last'.op \notin {"EnterSection", "SetCurrentSection"}
            => current_section' = current_section]_vars

\* EnterSection(b) has failed with the cursor on a, after EnterSection(a)
\* succeeded on a section whose snapshot differs from the one cached before
C19_Witness ==
    /\ last.op = "EnterSection" /\ last.section = sb /\ last.ret = -1
    /\ current_section = sa /\ cached_section = sa
    /\ SectionExist(sa) /\ cached_section_content = ini_content[sa]
    /\ Len(ini_content[sa]) = MaxItems

(***************************************************************************)
(* Claims about the order of a group (Spec) and the effect of Set          *)
(* (SpecParseSet).                                                         *)
(***************************************************************************)
\* C15: a group keeps its items in the order they were inserted, whatever
\* their keys: right after Set(section, key, value) on a section that is not
\* the cached one, GetAll(section, "") returns the values the group held
\* before, in their order, followed by value.  And GetAll on a section that
\* does not exist returns -1.
C15_GetAllInsertionOrder ==
    /\ (last.op = "Set" /\ cached_section # last.section)
        => LET old == IF last.section \in DOMAIN last.before
                      THEN last.before[last.section] ELSE NoItems
           IN  GetAllRun(last.section, Str0) =
                  [ret |-> 0,
                   data |-> [i \in 1..(Len(old) + 1) |->
                               IF i <= Len(old) THEN old[i].second
                               ELSE last.value]]
    /\ (last.op = "GetAll" /\ ~SectionExist(last.section)) => last.ret = -1

\* a text whose second section a fails as a duplicate at the final flush,
\* and a text that parses: "[a]\nx=1\n[a]\nx=1\n", "[b]\nx=1\n"
SetTexts ==
    { JoinLines(<< <<"[", "a", "]">>, <<"x", "=", "1">>,
                   <<"[", "a", "]">>, <<"x", "=", "1">> >>),
      JoinLines(<< <<"[", "b", "]">>, <<"x", "=", "1">> >>) }

\* a caller parses a text and goes on to add items with Set, whatever Parse
\* returned
NextParseSet ==
    \/ \E c \in SetTexts : Parse(c)
    \/ \E a \in SetArgs : Set(a[1], a[2], a[3])

SpecParseSet == Init /\ [][NextParseSet]_vars

\* what ItemCount(section) returns on a reader with these members
ItemCountRun(isParsed, content, section) ==
    IF ~isParsed \/ section \notin DOMAIN content THEN 0
    ELSE Len(content[section])

\* C18: a step that is a call of Set(section, key, value) returns 0, leaves
\* parsed true, makes ItemCount(section) one more than it was, keeps every
\* item the section held, in their order, and adds (key, value); it leaves
\* every other section's group and the cursor unchanged.
C18_SetFrame ==
    [][last'.op = "Set"
        => LET s == last'.section
               old == IF SectionExist(s) THEN ini_content[s] ELSE NoItems
           IN  /\ last'.ret = 0
               /\ parsed'
               /\ ItemCountRun(parsed', ini_content', s)
                     = ItemCountRun(parsed, ini_content, s) + 1
               /\ \E i \in 1..Len(ini_content'[s]) :
                     /\ ini_content'[s][i] = Pair(last'.key, last'.value)
                     /\ MMEraseAt(ini_content'[s], i) = old
               /\ DOMAIN ini_content' = DOMAIN ini_content \cup {s}
               /\ \A n \in DOMAIN ini_content \ {s} :
                     ini_content'[n] = ini_content[n]
               /\ current_section' = current_section]_vars

====
